---- MODULE Spec2Model ----
(***************************************************************************)
(* Model of recutils/operations.go: the record store operations            *)
(* QueryRecords, InsertRecord, DeleteRecords, UpdateRecords over one store *)
(* file and its backup sibling <path>.bak.                                 *)
(*                                                                         *)
(* Text is modelled as a sequence of tokens.  A token is a newline, a     *)
(* blank, a field line body "name: value" or a message text.  A type      *)
(* declaration "%rec: T" is the field line whose name is "%rec".          *)
(***************************************************************************)
EXTENDS Integers, Sequences, FiniteSets, TLC

VARIABLES databaseFile, backupFile, call, result, err, loc, nops, clean, cmd, task, scan

vars == <<databaseFile, backupFile, call, result, err, loc, nops, clean, cmd, task, scan>>

(***************************************************************************)
(* Bounds of the model.                                                    *)
(***************************************************************************)
\* number of operations in a run
MaxOps == 2

\* seconds for which the run of one command is followed
MaxTime == 32

(***************************************************************************)
(* Tokens and strings.                                                     *)
(***************************************************************************)
NL == [k |-> "nl", n |-> "", v |-> ""]
SP == [k |-> "sp", n |-> "", v |-> ""]
Fld(name, value) == [k |-> "fld", n |-> name, v |-> value]
Txt(s) == [k |-> "txt", n |-> s, v |-> ""]

RecMarker == "%rec"

IsSpace(tok) == tok.k \in {"nl", "sp"}

RECURSIVE TrimLeft(_)
TrimLeft(s) ==
  IF s /= <<>> /\ IsSpace(Head(s)) THEN TrimLeft(Tail(s)) ELSE s

RECURSIVE TrimRight(_)
TrimRight(s) ==
  IF s /= <<>> /\ IsSpace(s[Len(s)]) THEN TrimRight(SubSeq(s, 1, Len(s) - 1)) ELSE s

\* strings.TrimSpace
TrimSpace(s) == TrimRight(TrimLeft(s))

\* index of the first newline of s, 0 when there is none
RECURSIVE IndexNL(_, _)
IndexNL(s, i) ==
  IF i > Len(s) THEN 0
  ELSE IF s[i] = NL THEN i ELSE IndexNL(s, i + 1)

\* strings.Split(s, "\n")
RECURSIVE Split(_)
Split(s) ==
  LET i == IndexNL(s, 1)
  IN  IF i = 0 THEN <<s>>
      ELSE <<SubSeq(s, 1, i - 1)>> \o Split(SubSeq(s, i + 1, Len(s)))

\* strings.Join(lines, "\n")
RECURSIVE Join(_)
Join(lines) ==
  IF lines = <<>> THEN <<>>
  ELSE IF Len(lines) = 1 THEN lines[1]
  ELSE lines[1] \o <<NL>> \o Join(Tail(lines))

\* strings.HasPrefix(line, fieldName + ":")
HasPrefix(line, fieldName) ==
  line /= <<>> /\ line[1].k = "fld" /\ line[1].n = fieldName

EndsWithNewline(s) == s /= <<>> /\ s[Len(s)] = NL

(***************************************************************************)
(* Field values: Go values of a map[string]interface{}.                    *)
(***************************************************************************)
StrVal(s) == [t |-> "string", s |-> s, i |-> 0]
IntVal(i) == [t |-> "int", s |-> "", i |-> i]

Digit(d) == CASE d = 0 -> "0" [] d = 1 -> "1" [] d = 2 -> "2" [] d = 3 -> "3"
              [] d = 4 -> "4" [] d = 5 -> "5" [] d = 6 -> "6" [] d = 7 -> "7"
              [] d = 8 -> "8" [] d = 9 -> "9"

RECURSIVE Itoa(_)
Itoa(i) == IF i < 10 THEN Digit(i) ELSE Itoa(i \div 10) \o Digit(i % 10)

\* fmt.Sprintf("%v", fieldValue)
FormatValue(val) == IF val.t = "int" THEN Itoa(val.i) ELSE val.s

\* fmt.Sprintf("%s: %v", fieldName, fieldValue)
FormatField(fieldName, fieldValue) == <<Fld(fieldName, FormatValue(fieldValue))>>

(***************************************************************************)
(* Files.  A file is absent or holds a string.                             *)
(***************************************************************************)
Missing == [exists |-> FALSE, data |-> <<>>]
File(data) == [exists |-> TRUE, data |-> data]

\* what a failed write leaves in the file after O_TRUNC: a proper prefix
Partial(data) == SubSeq(data, 1, Len(data) \div 2)



\* WriteFile that does not report a failed write
WriteFile_SwallowsError(file, data, outcome) ==
  CASE outcome = "ok"    -> [file |-> File(data), err |-> "nil"]
    [] outcome = "open"  -> [file |-> file, err |-> "nil"]
    [] outcome = "write" -> [file |-> File(Partial(data)), err |-> "nil"]

\* os.WriteFile(name, data, 0644); outcome is what the operating system does
WriteFile(file, data, outcome) ==
  CASE outcome = "ok"    -> [file |-> File(data), err |-> "nil"]
    [] outcome = "open"  -> [file |-> file, err |-> "open failed"]
    [] outcome = "write" -> [file |-> File(Partial(data)), err |-> "write failed"]


\* ReadFile that reads an absent file as empty
ReadFile_AbsentAsEmpty(file, outcome) ==
  IF outcome = "ok"
  THEN [data |-> file.data, err |-> "nil"]
  ELSE [data |-> <<>>, err |-> "read failed"]

\* os.ReadFile(name)
ReadFile(file, outcome) ==
  IF file.exists /\ outcome = "ok"
  THEN [data |-> file.data, err |-> "nil"]
  ELSE [data |-> <<>>, err |-> "read failed"]


\* Remove that leaves the file in place
Remove_Noop(file) == file

\* os.Remove(name)
Remove(file) == Missing

(***************************************************************************)
(* Result.                                                                 *)
(***************************************************************************)
\* &Result{Success: success, Output: output, Error: error}; nil tells a nil
\* pointer from a Result
Result(success, output, error) ==
  [Success |-> success, Output |-> output, Error |-> error, nil |-> FALSE]

\* the nil *Result
NilResult == [Success |-> FALSE, Output |-> <<>>, Error |-> <<>>, nil |-> TRUE]

NoResult == Result(FALSE, <<>>, <<>>)

(***************************************************************************)
(* The recutils tools, as far as the operations depend on them.  A         *)
(* selection expression is "" (kind "empty"), field = 'value' (kind "eq"), *)
(* #field = 1 (kind "one": the record has one field of that name) or       *)
(* malformed (kind "bad"), wrapped neg times in "!( )".  A comparison      *)
(* holds of a record when one of its fields of that name has the value.    *)
(***************************************************************************)
Expr(kind, name, value) == [kind |-> kind, n |-> name, v |-> value, neg |-> 0]
NoExpr == Expr("empty", "", "")

\* fmt.Sprintf("!(%s)", queryExpression)
Negate(queryExpression) == [queryExpression EXCEPT !.neg = @ + 1]

\* "!()" does not parse; a malformed expression stays malformed when wrapped
ExprParses(e) == e.kind \in {"eq", "one"} \/ (e.kind = "empty" /\ e.neg = 0)

Matches(rec, e) ==
  LET base == \/ e.kind = "empty"
              \/ /\ e.kind = "eq"
                 /\ \E i \in 1..Len(rec) : rec[i].n = e.n /\ rec[i].v = e.v
              \/ /\ e.kind = "one"
                 /\ Cardinality({i \in 1..Len(rec) : rec[i].n = e.n}) = 1
  IN  IF e.neg % 2 = 0 THEN base ELSE ~base

\* the records of a text: maximal runs of non-blank lines
RECURSIVE GroupLines(_, _, _)
GroupLines(lines, cur, acc) ==
  LET done == IF cur = <<>> THEN acc ELSE Append(acc, cur)
  IN  IF lines = <<>> THEN done
      ELSE IF TrimSpace(Head(lines)) = <<>>
           THEN GroupLines(Tail(lines), <<>>, done)
           ELSE GroupLines(Tail(lines), cur \o Head(lines), acc)

ParseRecords(data) == GroupLines(Split(data), <<>>, <<>>)

IsDescriptor(rec) == rec[1].k = "fld" /\ rec[1].n = RecMarker

\* the record sets of a text: a descriptor opens the set of its type, records
\* before any descriptor form the default set (type "")
RECURSIVE BuildRsets(_, _)
BuildRsets(recs, acc) ==
  IF recs = <<>> THEN acc
  ELSE LET r == Head(recs)
           k == Len(acc)
       IN  IF IsDescriptor(r)
           THEN BuildRsets(Tail(recs),
                           Append(acc, [type |-> r[1].v, desc |-> r, recs |-> <<>>]))
           ELSE IF k = 0
           THEN BuildRsets(Tail(recs),
                           <<[type |-> "", desc |-> <<>>, recs |-> <<r>>]>>)
           ELSE BuildRsets(Tail(recs),
                           [acc EXCEPT ![k].recs = Append(@, r)])

ParseDb(data) == BuildRsets(ParseRecords(data), <<>>)

RecordText(rec) == Join([i \in 1..Len(rec) |-> <<rec[i]>>]) \o <<NL>>

RECURSIVE WriteRecords(_)
WriteRecords(recs) ==
  IF recs = <<>> THEN <<>>
  ELSE IF Len(recs) = 1 THEN RecordText(recs[1])
  ELSE RecordText(recs[1]) \o <<NL>> \o WriteRecords(Tail(recs))

Exit(code, stdout, stderr) == [exit |-> code, stdout |-> stdout, stderr |-> stderr]

RsetsOfType(db, type) ==
  LET Is(rs) == rs.type = type IN SelectSeq(db, Is)

\* recsel [-t type] file [-e expr]
Recsel(file, type, e) ==
  IF ~file.exists THEN Exit(1, <<>>, <<Txt("cannot read file")>>)
  ELSE IF ~ExprParses(e) THEN Exit(1, <<>>, <<Txt("invalid selection expression")>>)
  ELSE LET db == ParseDb(file.data)
           sets == IF type = "" THEN db ELSE RsetsOfType(db, type)
           Sel(r) == Matches(r, e)
       IN  IF type = "" /\ Len(db) > 1
           THEN Exit(1, <<>>, <<Txt("several record types found")>>)
           ELSE IF sets = <<>> THEN Exit(0, <<>>, <<>>)
           ELSE Exit(0, WriteRecords(SelectSeq(sets[1].recs, Sel)), <<>>)

(***************************************************************************)
(* executeRecCommand: run the command; cancelled is the caller's context   *)
(* ending the process before it finishes.                                  *)
(***************************************************************************)

\* executeRecCommand that returns no Result when the command fails
executeRecCommand_NilOnError(proc, cancelled) ==
  IF cancelled \/ proc.exit /= 0 THEN NilResult
  ELSE Result(TRUE, TrimSpace(proc.stdout), TrimSpace(proc.stderr))

\* executeRecCommand that does not look at how the command ended
executeRecCommand_IgnoresExit(proc, cancelled) ==
  Result(TRUE, TrimSpace(proc.stdout), TrimSpace(proc.stderr))

executeRecCommand(proc, cancelled) ==
  IF cancelled THEN Result(FALSE, <<>>, <<>>)
  ELSE IF proc.exit /= 0 THEN Result(FALSE, proc.stdout, proc.stderr)
  ELSE Result(TRUE, TrimSpace(proc.stdout), TrimSpace(proc.stderr))


\* CommandError that hands the failure of the command to the caller
CommandError_Propagates(proc, cancelled) ==
  IF cancelled \/ proc.exit /= 0 THEN "command failed" ELSE "nil"

\* the error value executeRecCommand returns beside the Result: nil on
\* every path
CommandError(proc, cancelled) == "nil"

(***************************************************************************)
(* The run of one command inside executeRecCommand, second by second.      *)
(* duration is the time the process needs (Never: it does not end by      *)
(* itself), deadline the time at which the caller's context is done       *)
(* (NoDeadline: never; 0: done before the call).                           *)
(***************************************************************************)
\* context.WithTimeout(ctx, 30*time.Second)
Timeout == 30

Never == -1

NoDeadline == -1

Idle == [phase |-> "idle", elapsed |-> 0, duration |-> 0, deadline |-> NoDeadline,
         proc |-> Exit(0, <<>>, <<>>), timer |-> FALSE, end |-> "none",
         result |-> NoResult, err |-> "nil"]

Durations == {1, 3, Timeout, Timeout + 1, Never}

Deadlines == {NoDeadline, 0, 2, Timeout + 1}

Procs == {Exit(0, <<Fld("Name", "a"), NL>>, <<>>), Exit(1, <<>>, <<Txt("failed")>>)}

(***************************************************************************)
(* extractRecordTypeDeclaration                                            *)
(***************************************************************************)
RECURSIVE FirstDeclaration(_)
FirstDeclaration(lines) ==
  IF lines = <<>> THEN <<>>
  ELSE LET trimmed == TrimSpace(Head(lines))
       IN  IF HasPrefix(trimmed, RecMarker) THEN trimmed
           ELSE FirstDeclaration(Tail(lines))


\* extractRecordTypeDeclaration that returns the last declaration line
extractRecordTypeDeclaration_LastDeclaration(content) ==
  LET lines == Split(content)
      hits == {i \in 1..Len(lines) : HasPrefix(TrimSpace(lines[i]), RecMarker)}
  IN  IF hits = {} THEN <<>>
      ELSE TrimSpace(lines[CHOOSE i \in hits : \A j \in hits : j <= i])

\* extractRecordTypeDeclaration that finds no declaration
extractRecordTypeDeclaration_None(content) == <<>>

extractRecordTypeDeclaration(content) == FirstDeclaration(Split(content))

(***************************************************************************)
(* recins -t type -r record file: adds the record to the record set of    *)
(* its type, opening a new record set when the store has none of that     *)
(* type, and rewrites the store with one blank line between records.      *)
(***************************************************************************)
RECURSIVE AllRecords(_)
AllRecords(db) ==
  IF db = <<>> THEN <<>>
  ELSE (IF Head(db).desc = <<>> THEN <<>> ELSE <<Head(db).desc>>)
       \o Head(db).recs \o AllRecords(Tail(db))

RECURSIVE AddToType(_, _, _)
AddToType(db, type, rec) ==
  IF db = <<>> THEN <<[type |-> type, desc |-> <<Fld(RecMarker, type)>>, recs |-> <<rec>>]>>
  ELSE IF Head(db).type = type
       THEN <<[Head(db) EXCEPT !.recs = Append(@, rec)]>> \o Tail(db)
       ELSE <<Head(db)>> \o AddToType(Tail(db), type, rec)

Recins(file, type, recordContent) ==
  LET new == ParseRecords(recordContent)
  IN  IF ~file.exists \/ Len(new) /= 1
      THEN [proc |-> Exit(1, <<>>, <<Txt("recins failed")>>), file |-> file]
      ELSE [proc |-> Exit(0, <<>>, <<>>),
            file |-> File(WriteRecords(AllRecords(AddToType(ParseDb(file.data), type, new[1]))))]

(***************************************************************************)
(* Operation outcomes.  loc keeps the locals of the last operation that    *)
(* the properties speak about.                                             *)
(***************************************************************************)
\* path is the branch the operation returned on, steps the effects on the
\* files in the order the operation made them, backup what it wrote to the
\* backup file
NoLoc == [original |-> <<>>, query |-> <<>>, keep |-> <<>>, updated |-> <<>>, output |-> <<>>,
          path |-> "start", steps |-> <<>>, backup |-> Missing]

\* BackupFailed that lets the operation go on after a failed backup
BackupFailed_Ignored(wb) == FALSE

\* if err := os.WriteFile(backupFile, originalContent, 0644); err != nil
BackupFailed(wb) == wb.err /= "nil"

BackupStep(wb) == IF wb.err = "nil" THEN "backup" ELSE "backup failed"

StoreStep(wd) == IF wd.err = "nil" THEN "store" ELSE "store failed"

Outcome(db, bak, res, e, l) ==
  [db |-> db, bak |-> bak, result |-> res, err |-> e, loc |-> l]

BackupOutcome(fault) ==
  CASE fault = "bakOpen" -> "open" [] fault = "bakWrite" -> "write" [] OTHER -> "ok"

StoreOutcome(fault) ==
  CASE fault = "dbOpen" -> "open" [] fault \in {"dbWrite", "restore"} -> "write"
    [] OTHER -> "ok"

\* the write of the "Restore backup" step after a failed write of the store
RestoreOutcome(fault) == IF fault = "restore" THEN "write" ELSE "ok"

ReadOutcome(fault) == IF fault = "read" THEN "fail" ELSE "ok"

(***************************************************************************)
(* QueryRecords                                                            *)
(***************************************************************************)

\* QueryRecords that answers a successful query with a message of its own
QueryRecords_Rewraps(db, queryExpression, outputFormat, fault) ==
  LET res == executeRecCommand(Recsel(db, outputFormat, queryExpression), fault = "cmd")
  IN  IF res.Success THEN Result(TRUE, <<Txt("Query successful")>>, <<>>) ELSE res

QueryRecords(db, queryExpression, outputFormat, fault) ==
  executeRecCommand(Recsel(db, outputFormat, queryExpression), fault = "cmd")

\* the error QueryRecords returns beside the Result
QueryError(db, queryExpression, outputFormat, fault) ==
  CommandError(Recsel(db, outputFormat, queryExpression), fault = "cmd")

(***************************************************************************)
(* GetDatabaseInfo                                                         *)
(***************************************************************************)
\* one line of recinf: the number of records of a record set and its type
InfoLine(rs) == <<[k |-> "txt", n |-> rs.type, v |-> Itoa(Len(rs.recs))]>>

\* recinf file
Recinf(file) ==
  IF ~file.exists THEN Exit(1, <<>>, <<Txt("cannot read file")>>)
  ELSE LET db == ParseDb(file.data)
       IN  Exit(0, Join([i \in 1..Len(db) |-> InfoLine(db[i])]) \o
                   (IF db = <<>> THEN <<>> ELSE <<NL>>), <<>>)

GetDatabaseInfo(db, fault) == executeRecCommand(Recinf(db), fault = "cmd")

\* the error GetDatabaseInfo returns beside the Result
InfoError(db, fault) == CommandError(Recinf(db), fault = "cmd")

(***************************************************************************)
(* InsertRecord.  order is the order in which the Go runtime ranges over   *)
(* the fields map.                                                         *)
(***************************************************************************)
ValueOf(fields, fieldName) == (CHOOSE p \in fields : p.n = fieldName).v

RecordLines(fields, order) ==
  [i \in 1..Len(order) |-> FormatField(order[i], ValueOf(fields, order[i]))]


\* FreshContent with a single newline after the declaration
FreshContent_NoBlankLine(recordType, recordContent) ==
  <<Fld(RecMarker, recordType), NL>> \o recordContent \o <<NL>>

\* fmt.Sprintf("%%rec: %s\n\n%s\n", recordType, recordContent)
FreshContent(recordType, recordContent) ==
  <<Fld(RecMarker, recordType), NL, NL>> \o recordContent \o <<NL>>

InsertOk == Result(TRUE, <<Txt("Record inserted successfully")>>, <<>>)

InsertRecord(db, bak, recordType, fields, order, fault) ==
  LET recordContent == Join(RecordLines(fields, order))
  IN  IF fault /= "stat" /\ (~db.exists \/ Len(db.data) = 0)
      THEN LET w == WriteFile(db, FreshContent(recordType, recordContent), StoreOutcome(fault))
           IN  IF w.err /= "nil"
               THEN Outcome(w.file, bak, Result(FALSE, <<>>, <<Txt(w.err)>>),
                            "failed to write database file", NoLoc)
               ELSE Outcome(w.file, bak, InsertOk, "nil", NoLoc)
      ELSE IF fault = "stat"
      THEN Outcome(db, bak, Result(FALSE, <<>>, <<Txt("stat failed")>>),
                   "failed to stat database file", NoLoc)
      ELSE LET ins == Recins(db, recordType, recordContent)
               res == executeRecCommand(ins.proc, fault = "cmd")
               after == IF fault = "cmd" THEN db ELSE ins.file
               e == CommandError(ins.proc, fault = "cmd")
           IN  IF e /= "nil" \/ ~res.Success
               THEN Outcome(after, bak, Result(FALSE, res.Output, res.Error), e, NoLoc)
               ELSE Outcome(after, bak, InsertOk, "nil", NoLoc)

(***************************************************************************)
(* DeleteRecords                                                           *)
(***************************************************************************)

\* DeleteOutput without the blank line after the declaration
DeleteOutput_NoBlankLine(recordTypeDecl, kept) ==
  (IF recordTypeDecl /= <<>> THEN recordTypeDecl \o <<NL>> ELSE <<>>)
  \o (IF kept /= <<>> THEN kept \o <<NL>> ELSE <<>>)

\* DeleteOutput without the newline after the kept records
DeleteOutput_NoTrailingNewline(recordTypeDecl, kept) ==
  (IF recordTypeDecl /= <<>> THEN recordTypeDecl \o <<NL, NL>> ELSE <<>>) \o kept

\* the rebuilt file of DeleteRecords
DeleteOutput(recordTypeDecl, kept) ==
  (IF recordTypeDecl /= <<>> THEN recordTypeDecl \o <<NL, NL>> ELSE <<>>)
  \o (IF kept /= <<>> THEN kept \o <<NL>> ELSE <<>>)


\* RestoreAfterWriteFailure that removes the backup afterwards
RestoreAfterWriteFailure_RemovesBackup(db, bak, originalContent, outcome) ==
  [db |-> db, bak |-> Remove(WriteFile(bak, originalContent, outcome).file)]

\* the "Restore backup" step after a failed write of the store:
\* os.WriteFile(backupFile, originalContent, 0644), its error not looked at
RestoreAfterWriteFailure(db, bak, originalContent, outcome) ==
  [db |-> db, bak |-> WriteFile(bak, originalContent, outcome).file]


\* RestoreAfterKeepFailure that leaves the backup on disk
RestoreAfterKeepFailure_KeepsBackup(db, bak, originalContent) ==
  [db |-> db, bak |-> WriteFile(bak, originalContent, "ok").file]

\* RestoreAfterKeepFailure that empties the store
RestoreAfterKeepFailure_TruncatesStore(db, bak, originalContent) ==
  [db |-> WriteFile(db, <<>>, "ok").file,
   bak |-> Remove(WriteFile(bak, originalContent, "ok").file)]

\* the "Restore backup" step after a failed keep evaluation
RestoreAfterKeepFailure(db, bak, originalContent) ==
  [db |-> db, bak |-> Remove(WriteFile(bak, originalContent, "ok").file)]

DeleteOk == Result(TRUE, <<Txt("Records deleted successfully")>>, <<>>)

DeleteRecords(db, bak, queryExpression, fault) ==
  LET rd == ReadFile(db, ReadOutcome(fault))
      originalContent == rd.data
      l0 == [NoLoc EXCEPT !.original = originalContent, !.steps = <<"read">>]
  IN  IF rd.err /= "nil"
      THEN Outcome(db, bak, Result(FALSE, <<>>, <<Txt(rd.err)>>),
                   "failed to read database file", [NoLoc EXCEPT !.path = "read_failed"])
      ELSE
      LET wb == WriteFile(bak, originalContent, BackupOutcome(fault))
      IN  IF BackupFailed(wb)
          THEN Outcome(db, wb.file, Result(FALSE, <<>>, <<Txt(wb.err)>>),
                       "failed to create backup",
                       [l0 EXCEPT !.path = "backup_failed",
                                  !.steps = Append(@, BackupStep(wb))])
          ELSE
          LET recordTypeDecl == extractRecordTypeDeclaration(originalContent)
              res == executeRecCommand(Recsel(db, "", Negate(queryExpression)),
                                       fault = "keep")
              l1 == [l0 EXCEPT !.keep = res.Output, !.backup = wb.file,
                               !.steps = @ \o <<BackupStep(wb), "keep">>]
          IN  IF res.Success
              THEN LET output == DeleteOutput(recordTypeDecl, res.Output)
                       wd == WriteFile(db, output, StoreOutcome(fault))
                       l2 == [l1 EXCEPT !.output = output,
                                        !.steps = Append(@, StoreStep(wd))]
                   IN  IF wd.err /= "nil"
                       THEN LET r == RestoreAfterWriteFailure(wd.file, wb.file, originalContent,
                                                          RestoreOutcome(fault))
                            IN  Outcome(r.db, r.bak, Result(FALSE, <<>>, <<Txt(wd.err)>>),
                                        "failed to write database file",
                                        [l2 EXCEPT !.path = "write_failed",
                                                   !.steps = Append(@, "restore")])
                       ELSE Outcome(wd.file, Remove(wb.file), DeleteOk, "nil",
                                    [l2 EXCEPT !.path = "rewritten",
                                               !.steps = Append(@, "remove")])
              ELSE LET r == RestoreAfterKeepFailure(db, wb.file, originalContent)
                   IN  Outcome(r.db, r.bak, res, "nil",
                               [l1 EXCEPT !.path = "keep_failed",
                                          !.steps = @ \o <<"restore", "remove">>])

(***************************************************************************)
(* UpdateRecords                                                           *)
(***************************************************************************)
\* the non-blank lines of the matching records, each trimmed
RECURSIVE NonBlankLines(_)
NonBlankLines(lines) ==
  IF lines = <<>> THEN <<>>
  ELSE LET line == TrimSpace(Head(lines))
       IN  (IF line /= <<>> THEN <<line>> ELSE <<>>) \o NonBlankLines(Tail(lines))

FieldExists(currentRecord, fieldName) ==
  \E j \in 1..Len(currentRecord) : HasPrefix(currentRecord[j], fieldName)


\* ApplyFields without the check that the field already exists
RECURSIVE ApplyFields_NoExistsCheck(_, _, _, _, _)
ApplyFields_NoExistsCheck(currentRecord, line, i, order, fields) ==
  IF order = <<>> THEN currentRecord
  ELSE LET fieldName == Head(order)
           new == FormatField(fieldName, ValueOf(fields, fieldName))
       IN  IF HasPrefix(line, fieldName)
           THEN ApplyFields_NoExistsCheck([currentRecord EXCEPT ![i] = new], line, i,
                                          Tail(order), fields)
           ELSE ApplyFields_NoExistsCheck(Append(currentRecord, new), line, i,
                                          Tail(order), fields)

\* the inner loop over the fields map for line i
RECURSIVE ApplyFields(_, _, _, _, _)
ApplyFields(currentRecord, line, i, order, fields) ==
  IF order = <<>> THEN currentRecord
  ELSE LET fieldName == Head(order)
           new == FormatField(fieldName, ValueOf(fields, fieldName))
       IN  IF HasPrefix(line, fieldName)
           THEN ApplyFields([currentRecord EXCEPT ![i] = new], line, i, Tail(order), fields)
           ELSE IF ~FieldExists(currentRecord, fieldName)
           THEN ApplyFields(Append(currentRecord, new), line, i, Tail(order), fields)
           ELSE ApplyFields(currentRecord, line, i, Tail(order), fields)

\* the outer loop over the lines the record had when the loop started
RECURSIVE UpdateLines(_, _, _, _, _)
UpdateLines(currentRecord, lines, i, order, fields) ==
  IF i > Len(lines) THEN currentRecord
  ELSE UpdateLines(ApplyFields(currentRecord, lines[i], i, order, fields),
                   lines, i + 1, order, fields)


\* UpdateFields that appends the fields no line carries also to an empty record
UpdateFields_AppendToEmpty(currentRecord, order, fields) ==
  IF currentRecord = <<>>
  THEN RecordLines(fields, order)
  ELSE UpdateLines(currentRecord, currentRecord, 1, order, fields)

UpdateFields(currentRecord, order, fields) ==
  UpdateLines(currentRecord, currentRecord, 1, order, fields)


\* UpdateOutput with a single newline after the declaration
UpdateOutput_NoBlankAfterDeclaration(recordTypeDecl, kept, updatedRecords) ==
  (IF recordTypeDecl /= <<>> THEN recordTypeDecl \o <<NL>> ELSE <<>>)
  \o (IF kept /= <<>>
      THEN kept \o (IF Len(updatedRecords) > 0 THEN <<NL, NL>> ELSE <<>>)
      ELSE <<>>)
  \o (IF Len(updatedRecords) > 0 THEN Join(updatedRecords) \o <<NL>> ELSE <<>>)

\* the rebuilt file of UpdateRecords
UpdateOutput(recordTypeDecl, kept, updatedRecords) ==
  (IF recordTypeDecl /= <<>> THEN recordTypeDecl \o <<NL, NL>> ELSE <<>>)
  \o (IF kept /= <<>>
      THEN kept \o (IF Len(updatedRecords) > 0 THEN <<NL, NL>> ELSE <<>>)
      ELSE <<>>)
  \o (IF Len(updatedRecords) > 0 THEN Join(updatedRecords) \o <<NL>> ELSE <<>>)

UpdateOk == Result(TRUE, <<Txt("Records updated successfully")>>, <<>>)

UpdateRecords(db, bak, queryExpression, fields, order, fault) ==
  LET queryResult == executeRecCommand(Recsel(db, "", queryExpression), fault = "cmd")
      e == CommandError(Recsel(db, "", queryExpression), fault = "cmd")
  IN  IF e /= "nil" \/ ~queryResult.Success
      THEN Outcome(db, bak, Result(FALSE, <<>>, queryResult.Error), e,
                   [NoLoc EXCEPT !.path = "query_failed"])
      ELSE
      LET rd == ReadFile(db, ReadOutcome(fault))
          originalContent == rd.data
          l0 == [NoLoc EXCEPT !.original = originalContent, !.query = queryResult.Output,
                              !.steps = <<"read">>]
      IN  IF rd.err /= "nil"
          THEN Outcome(db, bak, Result(FALSE, <<>>, <<Txt(rd.err)>>),
                       "failed to read database file",
                       [NoLoc EXCEPT !.path = "read_failed"])
          ELSE
          LET wb == WriteFile(bak, originalContent, BackupOutcome(fault))
          IN  IF BackupFailed(wb)
              THEN Outcome(db, wb.file, Result(FALSE, <<>>, <<Txt(wb.err)>>),
                           "failed to create backup",
                           [l0 EXCEPT !.path = "backup_failed",
                                      !.steps = Append(@, BackupStep(wb))])
              ELSE
              LET keepResult == executeRecCommand(
                                  Recsel(db, "", Negate(queryExpression)), fault = "keep")
                  l1 == [l0 EXCEPT !.keep = keepResult.Output, !.backup = wb.file,
                                   !.steps = @ \o <<BackupStep(wb), "keep">>]
              IN  IF keepResult.Success
                  THEN LET recordTypeDecl == extractRecordTypeDeclaration(originalContent)
                           currentRecord == NonBlankLines(Split(queryResult.Output))
                           updatedRecords == UpdateFields(currentRecord, order, fields)
                           output == UpdateOutput(recordTypeDecl, keepResult.Output,
                                                  updatedRecords)
                           wd == WriteFile(db, output, StoreOutcome(fault))
                           l2 == [l1 EXCEPT !.updated = updatedRecords, !.output = output,
                                            !.steps = Append(@, StoreStep(wd))]
                       IN  IF wd.err /= "nil"
                           THEN LET r == RestoreAfterWriteFailure(wd.file, wb.file,
                                                                  originalContent,
                                                                  RestoreOutcome(fault))
                                IN  Outcome(r.db, r.bak, Result(FALSE, <<>>, <<Txt(wd.err)>>),
                                            "failed to write database file",
                                            [l2 EXCEPT !.path = "write_failed",
                                                       !.steps = Append(@, "restore")])
                           ELSE Outcome(wd.file, Remove(wb.file), UpdateOk, "nil",
                                        [l2 EXCEPT !.path = "rewritten",
                                                   !.steps = Append(@, "remove")])
                  ELSE LET r == RestoreAfterKeepFailure(db, wb.file, originalContent)
                       IN  Outcome(r.db, r.bak, keepResult, "nil",
                                   [l1 EXCEPT !.path = "keep_failed",
                                              !.steps = @ \o <<"restore", "remove">>])

(***************************************************************************)
(* Inputs of the model.                                                    *)
(***************************************************************************)
Types == {"Person", "Item"}

Exprs == {NoExpr, Expr("bad", "", ""), Expr("eq", "Name", "a"),
          Expr("eq", "Name", "z"), Expr("eq", "Age", "25"),
          Expr("one", "Name", "1")}

Pair(name, value) == [n |-> name, v |-> value]

InsertFields == {{Pair("Name", StrVal("a")), Pair("Age", IntVal(30))}, {}}

Changes == {{Pair("Age", IntVal(26)), Pair("City", StrVal("x"))},
            {Pair("City", StrVal("x")), Pair("Zip", IntVal(7))}}

\* the changes whose update is also run under faults
FaultyOrder == <<"Age", "City">>

\* the environment's faults: a cancelled command ("cmd" the first command of
\* an operation, "keep" the keep evaluation), a failing stat or read, a write
\* of the backup or of the store that fails at open or after truncation, a
\* write of the store and the write of the restore step after it that both
\* fail after truncation ("restore")
QueryFaults(format) == IF format = "" THEN {"none", "cmd"} ELSE {"none"}

InsertFaults(db) ==
  IF ~db.exists \/ Len(db.data) = 0
  THEN {"none", "stat", "dbOpen", "dbWrite"}
  ELSE {"none", "stat", "cmd"}

DeleteFaults(db, e) ==
  IF ~db.exists THEN {"none"}
  ELSE {"none", "read", "bakOpen", "bakWrite"}
       \cup (IF ExprParses(Negate(e)) THEN {"keep", "dbOpen", "dbWrite", "restore"} ELSE {})

UpdateFaults(db, e, order) ==
  IF ~db.exists \/ ~ExprParses(e) \/ order /= FaultyOrder THEN {"none"}
  ELSE {"none", "cmd", "read", "bakOpen", "bakWrite"}
       \cup (IF ExprParses(Negate(e)) THEN {"keep", "dbOpen", "dbWrite", "restore"} ELSE {})

Formats == {"", "Person"}

\* the orders in which a map of these fields can be ranged over
Orders(fields) ==
  {o \in [1..Cardinality(fields) -> {p.n : p \in fields}] :
     \A i, j \in DOMAIN o : i /= j => o[i] /= o[j]}

RecA == <<Fld("Name", "a"), NL, Fld("Age", "25"), NL>>
RecB == <<Fld("Name", "b"), NL, Fld("Age", "25"), NL>>
Person == <<Fld(RecMarker, "Person"), NL, NL>>

\* the stores the operations start from: absent, empty, and well-formed
InitStores == {Missing, File(<<>>), File(Person \o RecA \o <<NL>> \o RecB),
               File(RecA \o <<NL>> \o RecB)}

\* two callers that run a delete or an update on the same store at once
Workers == {1, 2}

\* a call of DeleteRecords or UpdateRecords in progress: pc is the statement
\* it has reached, the other fields are its locals; lost are the calls whose
\* backup its os.Remove(backupFile) took away
IdleTask == [pc |-> "idle", op |-> "none", expr |-> NoExpr, original |-> <<>>,
             query |-> <<>>, keep |-> <<>>, ok |-> FALSE, lost |-> {}]

TaskOps == {"delete", "update"}

TaskExprs == {Expr("eq", "Name", "a"), Expr("eq", "Age", "25")}

TaskFields == {Pair("Age", IntVal(26)), Pair("City", StrVal("x"))}

\* the record a caller inserts while another call is in progress
TaskType == "Person"

TaskRecord == {Pair("Name", StrVal("a")), Pair("Age", IntVal(30))}

TaskOrder == <<"Name", "Age">>

\* the lines of the texts extractRecordTypeDeclaration is run on: empty, a
\* field, a declaration with blanks around it, a second declaration, and a
\* line that holds the marker but does not begin with it
ScanLines == {<<>>, <<Fld("Name", "a")>>, <<SP, Fld(RecMarker, "Person"), SP>>,
              <<Fld(RecMarker, "Item")>>, <<Fld("Name", "a"), SP, Fld(RecMarker, "Item")>>}

\* number of lines of those texts
MaxLines == 3

Contents ==
  {Join(lines) : lines \in UNION {[1..n -> ScanLines] : n \in 0..MaxLines}}

\* no call of extractRecordTypeDeclaration yet
NoScan == [phase |-> "idle", content |-> <<>>, ret |-> <<>>]

(***************************************************************************)
(* State machine: one action per operation, each a whole call.             *)
(***************************************************************************)
Call(op, e, type, fields, order, format, fault) ==
  [op |-> op, expr |-> e, type |-> type, fields |-> fields, order |-> order,
   format |-> format, fault |-> fault, db |-> databaseFile, bak |-> backupFile]

Init ==
  /\ databaseFile \in InitStores
  /\ backupFile = Missing
  /\ call = [op |-> "none", expr |-> NoExpr, type |-> "", fields |-> {}, order |-> <<>>,
             format |-> "", fault |-> "none", db |-> Missing, bak |-> Missing]
  /\ result = NoResult
  /\ err = "nil"
  /\ loc = NoLoc
  /\ nops = 0
  /\ clean = TRUE
  /\ cmd = Idle
  /\ task = [w \in Workers |-> IdleTask]
  /\ scan = NoScan

Apply(o) ==
  /\ databaseFile' = o.db
  /\ backupFile' = o.bak
  /\ result' = o.result
  /\ err' = o.err
  /\ loc' = o.loc
  /\ nops' = nops + 1
  /\ cmd' = cmd
  /\ task' = task
  /\ scan' = scan
  \* clean: every insert, update and delete so far returned success
  /\ clean' = (clean /\ (call'.op \in {"query", "info"} \/ o.result.Success))

Query ==
  /\ nops < MaxOps
  /\ \E e \in Exprs, format \in Formats :
       \E fault \in QueryFaults(format) :
         /\ call' = Call("query", e, "", {}, <<>>, format, fault)
         /\ Apply(Outcome(databaseFile, backupFile,
                          QueryRecords(databaseFile, e, format, fault),
                          QueryError(databaseFile, e, format, fault), NoLoc))

Info ==
  /\ nops < MaxOps
  /\ \E fault \in {"none", "cmd"} :
       /\ call' = Call("info", NoExpr, "", {}, <<>>, "", fault)
       /\ Apply(Outcome(databaseFile, backupFile, GetDatabaseInfo(databaseFile, fault),
                        InfoError(databaseFile, fault), NoLoc))

Insert ==
  /\ nops < MaxOps
  /\ \E type \in Types, fields \in InsertFields, fault \in InsertFaults(databaseFile) :
       \E order \in Orders(fields) :
         /\ call' = Call("insert", NoExpr, type, fields, order, "", fault)
         /\ \E o \in {InsertRecord(databaseFile, backupFile, type, fields, order, fault)} :
              Apply(o)

Delete ==
  /\ nops < MaxOps
  /\ \E e \in Exprs :
       \E fault \in DeleteFaults(databaseFile, e) :
         /\ call' = Call("delete", e, "", {}, <<>>, "", fault)
         /\ \E o \in {DeleteRecords(databaseFile, backupFile, e, fault)} : Apply(o)

Update ==
  /\ nops < MaxOps
  /\ \E e \in Exprs, fields \in Changes :
       \E order \in Orders(fields) :
         \E fault \in UpdateFaults(databaseFile, e, order) :
           /\ call' = Call("update", e, "", fields, order, "", fault)
           /\ \E o \in {UpdateRecords(databaseFile, backupFile, e, fields, order, fault)} :
                Apply(o)

Next == Query \/ Info \/ Insert \/ Delete \/ Update

Spec == Init /\ [][Next]_vars

(***************************************************************************)
(* State machine of one executeRecCommand call.                            *)
(***************************************************************************)
store == <<databaseFile, backupFile, call, result, err, loc, nops, clean, task, scan>>

\* command := exec.CommandContext(ctx, cmd[0], cmd[1:]...); command.Run()
\* starts the process under the caller's context
Start ==
  /\ cmd.phase = "idle"
  /\ \E duration \in Durations, deadline \in Deadlines, proc \in Procs :
       cmd' = [Idle EXCEPT !.phase = "running", !.duration = duration,
                           !.deadline = deadline, !.proc = proc]
  /\ UNCHANGED store

\* a second passes while command.Run() waits for the process
Tick ==
  /\ cmd.phase = "running"
  /\ cmd.elapsed < MaxTime
  /\ cmd.duration = Never \/ cmd.elapsed < cmd.duration
  /\ cmd.deadline = NoDeadline \/ cmd.elapsed < cmd.deadline
  /\ cmd.elapsed < Timeout \/ cmd.timer
  /\ cmd' = [cmd EXCEPT !.elapsed = @ + 1]
  /\ UNCHANGED store

\* the context made by context.WithTimeout is done; the command was built
\* from the caller's context, so nothing waits for this one
TimerFires ==
  /\ cmd.phase = "running"
  /\ cmd.elapsed >= Timeout
  /\ ~cmd.timer
  /\ cmd' = [cmd EXCEPT !.timer = TRUE]
  /\ UNCHANGED store

\* the process ends by itself and command.Run() returns
Finish ==
  /\ cmd.phase = "running"
  /\ cmd.duration /= Never
  /\ cmd.elapsed = cmd.duration
  /\ cmd' = [cmd EXCEPT !.phase = "done", !.end = "exit",
                        !.result = executeRecCommand(cmd.proc, FALSE),
                        !.err = CommandError(cmd.proc, FALSE)]
  /\ UNCHANGED store

\* the caller's context is done: exec kills the process and command.Run()
\* returns an error
Kill ==
  /\ cmd.phase = "running"
  /\ cmd.deadline /= NoDeadline
  /\ cmd.elapsed >= cmd.deadline
  /\ cmd' = [cmd EXCEPT !.phase = "done", !.end = "cancelled",
                        !.result = executeRecCommand(cmd.proc, TRUE),
                        !.err = CommandError(cmd.proc, TRUE)]
  /\ UNCHANGED store

NextCmd == Start \/ Tick \/ TimerFires \/ Finish \/ Kill

SpecCmd == Init /\ [][NextCmd]_vars

(***************************************************************************)
(* State machine of one extractRecordTypeDeclaration call.                 *)
(***************************************************************************)
\* content := a text of up to MaxLines lines; the call returns
Extract ==
  /\ scan.phase = "idle"
  /\ \E content \in Contents :
       scan' = [phase |-> "done", content |-> content,
                ret |-> extractRecordTypeDeclaration(content)]
  /\ UNCHANGED <<databaseFile, backupFile, call, result, err, loc, nops, clean, cmd, task>>

SpecExtract == Init /\ [][Extract]_vars

(***************************************************************************)
(* State machine of two concurrent calls of DeleteRecords, UpdateRecords   *)
(* or InsertRecord, statement by statement, on the one store and its one   *)
(* backup file.                                                            *)
(***************************************************************************)
calls == <<call, result, err, loc, nops, clean, cmd, scan>>

\* the statements between the write of the backup and the final write
InFlight == {"backed_up", "kept"}

\* a caller enters DeleteRecords or UpdateRecords
Begin(w) ==
  /\ task[w].pc = "idle"
  /\ \E op \in TaskOps, e \in TaskExprs :
       task' = [task EXCEPT ![w] = [IdleTask EXCEPT !.pc = "start", !.op = op, !.expr = e]]
  /\ UNCHANGED <<databaseFile, backupFile, calls>>

\* a caller enters InsertRecord
BeginInsert(w) ==
  /\ task[w].pc = "idle"
  /\ task' = [task EXCEPT ![w] = [IdleTask EXCEPT !.pc = "start", !.op = "insert"]]
  /\ UNCHANGED <<databaseFile, backupFile, calls>>

\* fileInfo, err := os.Stat(databaseFile) and the branch taken on it
Stat(w) ==
  /\ task[w].pc = "start"
  /\ task[w].op = "insert"
  /\ task' = [task EXCEPT ![w].pc =
                IF ~databaseFile.exists \/ Len(databaseFile.data) = 0
                THEN "absent" ELSE "present"]
  /\ UNCHANGED <<databaseFile, backupFile, calls>>

\* InsertRecord after the stat: os.WriteFile of the new record set, or the
\* run of recins, and the return
Put(w) ==
  /\ task[w].pc \in {"absent", "present"}
  /\ LET recordContent == Join(RecordLines(TaskRecord, TaskOrder))
         ins == Recins(databaseFile, TaskType, recordContent)
     IN  IF task[w].pc = "absent"
         THEN /\ databaseFile' = WriteFile(databaseFile,
                                           FreshContent(TaskType, recordContent), "ok").file
              /\ task' = [task EXCEPT ![w].pc = "done", ![w].ok = TRUE]
         ELSE /\ databaseFile' = ins.file
              /\ task' = [task EXCEPT ![w].pc = "done",
                                      ![w].ok = executeRecCommand(ins.proc, FALSE).Success]
  /\ UNCHANGED <<backupFile, calls>>

\* UpdateRecords: queryResult, err := ro.executeRecCommand(ctx, queryCmd, "")
FirstQuery(w) ==
  /\ task[w].pc = "start"
  /\ task[w].op = "update"
  /\ LET queryResult == executeRecCommand(Recsel(databaseFile, "", task[w].expr), FALSE)
     IN  task' = [task EXCEPT ![w] =
                    IF queryResult.Success
                    THEN [@ EXCEPT !.pc = "queried", !.query = queryResult.Output]
                    ELSE [@ EXCEPT !.pc = "done"]]
  /\ UNCHANGED <<databaseFile, backupFile, calls>>

\* originalContent, err := os.ReadFile(databaseFile)
Read(w) ==
  /\ task[w].pc = (IF task[w].op = "update" THEN "queried" ELSE "start")
  /\ task[w].op \in TaskOps
  /\ LET rd == ReadFile(databaseFile, "ok")
     IN  task' = [task EXCEPT ![w] =
                    IF rd.err = "nil"
                    THEN [@ EXCEPT !.pc = "read", !.original = rd.data]
                    ELSE [@ EXCEPT !.pc = "done"]]
  /\ UNCHANGED <<databaseFile, backupFile, calls>>

\* err = os.WriteFile(backupFile, originalContent, 0644)
Backup(w) ==
  /\ task[w].pc = "read"
  /\ backupFile' = WriteFile(backupFile, task[w].original, "ok").file
  /\ task' = [task EXCEPT ![w].pc = "backed_up"]
  /\ UNCHANGED <<databaseFile, calls>>

\* the keep evaluation; when it fails, the restore step and the return
EvaluateKeep(w) ==
  /\ task[w].pc = "backed_up"
  /\ LET res == executeRecCommand(Recsel(databaseFile, "", Negate(task[w].expr)), FALSE)
         r == RestoreAfterKeepFailure(databaseFile, backupFile, task[w].original)
     IN  IF res.Success
         THEN /\ task' = [task EXCEPT ![w].pc = "kept", ![w].keep = res.Output]
              /\ UNCHANGED backupFile
         ELSE /\ task' = [task EXCEPT ![w].pc = "done"]
              /\ backupFile' = r.bak
  /\ UNCHANGED <<databaseFile, calls>>

\* err = os.WriteFile(databaseFile, []byte(output), 0644)
Rewrite(w) ==
  /\ task[w].pc = "kept"
  /\ LET recordTypeDecl == extractRecordTypeDeclaration(task[w].original)
         output == IF task[w].op = "delete"
                   THEN DeleteOutput(recordTypeDecl, task[w].keep)
                   ELSE UpdateOutput(recordTypeDecl, task[w].keep,
                                     UpdateFields(NonBlankLines(Split(task[w].query)),
                                                  FaultyOrder, TaskFields))
     IN  databaseFile' = WriteFile(databaseFile, output, "ok").file
  /\ task' = [task EXCEPT ![w].pc = "written"]
  /\ UNCHANGED <<backupFile, calls>>

\* os.Remove(backupFile) and the return of success
RemoveBackup(w) ==
  /\ task[w].pc = "written"
  /\ backupFile' = Remove(backupFile)
  /\ task' = [task EXCEPT ![w].pc = "done", ![w].ok = TRUE,
                          ![w].lost = {v \in Workers \ {w} : task[v].pc \in InFlight}]
  /\ UNCHANGED <<databaseFile, calls>>

NextTasks ==
  \E w \in Workers :
    \/ Begin(w)
    \/ BeginInsert(w)
    \/ Stat(w)
    \/ Put(w)
    \/ FirstQuery(w)
    \/ Read(w)
    \/ Backup(w)
    \/ EvaluateKeep(w)
    \/ Rewrite(w)
    \/ RemoveBackup(w)

SpecTasks == Init /\ [][NextTasks]_vars

(***************************************************************************)
(* Notions the properties are stated with.                                 *)
(***************************************************************************)
\* a full query of a store, QueryRecords(S, "", "")
QueryAll(file) == QueryRecords(file, NoExpr, "", "none")

\* a query of a store with an expression
QueryExpr(file, e) == QueryRecords(file, e, "", "none")

\* the field lines of a text, blank lines dropped
LinesOf(text) == NonBlankLines(Split(text))

Count(lines, fieldName) ==
  Cardinality({j \in 1..Len(lines) : HasPrefix(lines[j], fieldName)})

Keys(fields) == {p.n : p \in fields}

\* the line "name: value" of a field of a fields map
LineOf(p) == <<Fld(p.n, FormatValue(p.v))>>

Occurs(line, lines) == \E j \in 1..Len(lines) : lines[j] = line

\* the lines whose field name is not a changed one, in order
Untouched(lines, fields) ==
  LET Keep(l) == ~(l[1].n \in Keys(fields)) IN SelectSeq(lines, Keep)

IsDestructive == call.op \in {"update", "delete"}

\* C1: after a successful delete, a full query of the store returns exactly
\* what the negated predicate selected on the store before the delete.
C1_ComplementCorrectness ==
  (call.op = "delete" /\ result.Success) =>
    LET after == QueryAll(databaseFile)
        kept == QueryExpr(call.db, Negate(call.expr))
    IN  after.Success /\ kept.Success /\ after.Output = kept.Output

C1_Witness ==
  /\ call.op = "delete" /\ result.Success
  /\ QueryAll(databaseFile).Output /= <<>>
  /\ QueryAll(databaseFile).Output /= QueryAll(call.db).Output

\* C2: when the final write of a delete or update fails, the store holds at
\* return what it held before the operation started.
C2_FailureRestoration ==
  (IsDestructive /\ err = "failed to write database file") =>
    databaseFile = call.db

\* C3: an update whose predicate matches no record, run without a fault of
\* the environment, leaves the full query of the store as it was.
C3_UnmatchedUpdateKeepsRecords ==
  (call.op = "update" /\ call.fault = "none"
     /\ QueryExpr(call.db, call.expr).Success
     /\ QueryExpr(call.db, call.expr).Output = <<>>) =>
    /\ QueryAll(databaseFile).Success
    /\ QueryAll(databaseFile).Output = QueryAll(call.db).Output

C3_Witness ==
  /\ call.op = "update" /\ call.fault = "none" /\ result.Success
  /\ QueryExpr(call.db, call.expr).Success
  /\ QueryExpr(call.db, call.expr).Output = <<>>
  /\ QueryAll(call.db).Output /= <<>>

\* C4: when a delete or update returns success, no backup file exists.
C4_BackupCleanup ==
  (IsDestructive /\ result.Success) => ~backupFile.exists

C4_Witness ==
  IsDestructive /\ result.Success /\ call.bak.exists /\ ~backupFile.exists

\* C5: after a successful insert a full query succeeds, shows every inserted
\* field on a line of its own, and still returns the records it returned
\* before the insert.
C5_InsertQueryRoundTrip ==
  (call.op = "insert" /\ result.Success) =>
    LET after == QueryAll(databaseFile)
        before == QueryAll(call.db)
        recs == ParseRecords(after.Output)
        old == ParseRecords(before.Output)
    IN  /\ after.Success
        /\ \A p \in call.fields : Occurs(LineOf(p), LinesOf(after.Output))
        /\ before.Success =>
             \A j \in 1..Len(old) : \E i \in 1..Len(recs) : recs[i] = old[j]

\* C6: after a successful update whose predicate does not test a changed
\* field, querying the predicate returns the matched lines with every line of
\* a changed field carrying the new value, the other lines as they were.
C6_UpdateSetsFields ==
  (call.op = "update" /\ result.Success /\ ~(call.expr.n \in Keys(call.fields))) =>
    LET before == LinesOf(QueryExpr(call.db, call.expr).Output)
        q == QueryExpr(databaseFile, call.expr)
        after == LinesOf(q.Output)
    IN  /\ q.Success
        /\ \A p \in call.fields : \A j \in 1..Len(after) :
             HasPrefix(after[j], p.n) => after[j] = LineOf(p)
        /\ \A p \in call.fields :
             Count(before, p.n) > 0 => Count(after, p.n) = Count(before, p.n)
        /\ Untouched(after, call.fields) = Untouched(before, call.fields)

\* the update has built its updated lines: the keep evaluation succeeded
UpdateBuilt ==
  call.op = "update" /\ (result.Success \/ err = "failed to write database file")

\* C7: with a non-empty matched set, each changed field that is on no
\* matched line is appended exactly once, after the matched lines, and a
\* changed field that is on a matched line is never appended.
C7_MissingFieldAddedOnce ==
  LET matched == LinesOf(QueryExpr(call.db, call.expr).Output)
      missing == {p \in call.fields : Count(matched, p.n) = 0}
  IN  (UpdateBuilt /\ matched /= <<>>) =>
        /\ Len(loc.updated) = Len(matched) + Cardinality(missing)
        /\ \A p \in call.fields :
             IF p \in missing
             THEN /\ Count(loc.updated, p.n) = 1
                  /\ \E j \in Len(matched) + 1 .. Len(loc.updated) :
                       loc.updated[j] = LineOf(p)
             ELSE Count(loc.updated, p.n) = Count(matched, p.n)

C7_Witness ==
  LET matched == LinesOf(QueryExpr(call.db, call.expr).Output)
  IN  /\ UpdateBuilt /\ Len(matched) > 2
      /\ \E p, q \in call.fields :
           p /= q /\ Count(matched, p.n) = 0 /\ Count(matched, q.n) = 0

\* the store was absent or of zero length when the insert was called
FreshInsert == call.op = "insert" /\ result.Success /\ call.db.data = <<>>

\* the file is the declaration, one blank line, one line per inserted field,
\* and ends with a newline
FreshFormat ==
  LET lines == Split(databaseFile.data)
      n == Cardinality(call.fields)
  IN  /\ Len(lines) = n + 3
      /\ lines[1] = <<Fld(RecMarker, call.type)>>
      /\ lines[2] = <<>>
      /\ \A j \in 3..(n + 2) : lines[j] /= <<>>
      /\ \A p \in call.fields : \E j \in 3..(n + 2) : lines[j] = LineOf(p)
      /\ lines[n + 3] = <<>>

\* C8 as stated: every successful insert into an absent or empty store
\* leaves the declaration, exactly one blank line, the field lines, a newline.
C8_FreshFormatAnyFields == FreshInsert => FreshFormat

\* C8 amended: the same, for an insert of at least one field.
C8_FreshFormat == (FreshInsert /\ call.fields /= {}) => FreshFormat

C8_Witness ==
  FreshInsert /\ Cardinality(call.fields) > 1 /\ call.db.exists /\ FreshFormat

\* C9: while every insert, update and delete has succeeded, a non-empty
\* store ends with a newline.
C9_TrailingNewline ==
  (clean /\ databaseFile.exists /\ databaseFile.data /= <<>>) =>
    EndsWithNewline(databaseFile.data)

\* C10: a delete on a store that cannot be read fails with a propagating
\* error and leaves the store and the backup as they were.
C10_DeleteUnreadable ==
  (call.op = "delete" /\ (~call.db.exists \/ call.fault = "read")) =>
    /\ ~result.Success
    /\ err /= "nil"
    /\ databaseFile = call.db
    /\ backupFile = call.bak

C10_Witness ==
  call.op = "delete" /\ ~call.db.exists /\ err = "failed to read database file"

(***************************************************************************)
(* Failures of the evaluator and of the file system.                       *)
(***************************************************************************)
\* C11: a query of a store that does not exist creates no file and hands the
\* failure of the evaluator back unchanged: a Result that is not nil, with
\* Success false and the evaluator's own output, beside a nil error
C11_QueryMissingStore ==
  (call.op = "query" /\ ~call.db.exists) =>
    /\ ~result.nil
    /\ ~result.Success
    /\ err = "nil"
    /\ call.fault = "none" =>
         LET proc == Recsel(call.db, call.format, call.expr)
         IN  result.Output = proc.stdout /\ result.Error = proc.stderr
    /\ databaseFile = call.db
    /\ backupFile = call.bak

C11_Witness ==
  /\ call.op = "query"
  /\ ~call.db.exists
  /\ call.fault = "none"
  /\ result.Error /= <<>>
  /\ ~databaseFile.exists

\* C12: whenever an insert returns Success false it also returns an error
\* that is not nil
C12_InsertFailureCarriesError ==
  (call.op = "insert" /\ ~result.Success) => err /= "nil"

\* C13: every call of query, insert, delete, update and info returns a
\* Result that is not nil, also when it returns an error
C13_ResultNeverNil ==
  call.op \in {"query", "insert", "delete", "update", "info"} => ~result.nil

C13_Witness ==
  /\ call.op = "info"
  /\ call.db.exists
  /\ ~result.Success
  /\ ~result.nil

(***************************************************************************)
(* Bounds on the run of a command (specification SpecCmd).                 *)
(***************************************************************************)
\* C14: no command runs for longer than the fixed 30 seconds, also under a
\* caller's context that is never done; a command that needs longer is
\* stopped and the call returns a Result with Success false
C14_FixedExecutionBound ==
  /\ cmd.phase = "running" => cmd.elapsed <= Timeout
  /\ (cmd.phase = "done" /\ (cmd.duration = Never \/ cmd.duration > Timeout)) =>
       ~cmd.result.Success /\ cmd.elapsed <= Timeout

\* C15: when the caller's context is done before the command ends, the call
\* does not report success, and it ends at the earlier of the caller's
\* deadline and the fixed 30 seconds
C15_CancellationBoundsExecution ==
  (/\ cmd.phase = "done"
   /\ cmd.deadline /= NoDeadline
   /\ (cmd.duration = Never \/ cmd.deadline < cmd.duration)) =>
    /\ ~cmd.result.Success \/ cmd.err /= "nil"
    /\ cmd.elapsed <= cmd.deadline
    /\ cmd.elapsed <= Timeout

(***************************************************************************)
(* Delete and update: no-ops, failures, backup discipline (Spec).          *)
(***************************************************************************)
IsDeclaration(tok) == tok.k = "fld" /\ tok.n = RecMarker

\* a store in the format of the data model: at most one type declaration,
\* on line 1 and followed by exactly one blank line; every field on a line
\* of its own; records separated by exactly one blank line; a newline after
\* the last field and no blank line after it
WellFormed(file) ==
  /\ file.exists
  /\ LET d == file.data
         n == Len(d)
     IN  \/ d = <<>>
         \/ /\ n >= 2
            /\ d[1].k = "fld"
            /\ d[n] = NL
            /\ \A i \in 1..n : d[i] = NL \/ d[i].k = "fld"
            /\ \A i \in 1..(n - 1) : d[i].k = "fld" => d[i + 1] = NL
            /\ \A i \in 1..(n - 2) : ~(d[i] = NL /\ d[i + 1] = NL /\ d[i + 2] = NL)
            /\ \A i \in 2..n : ~IsDeclaration(d[i])
            /\ IsDeclaration(d[1]) => n >= 3 /\ d[2] = NL /\ d[3] = NL
            /\ d[n - 1] = NL => n = 3 /\ IsDeclaration(d[1])

\* the expression is a comparison and selects no record of the store
NoMatch(file, e) ==
  /\ e.kind = "eq"
  /\ QueryExpr(file, e).Success
  /\ QueryExpr(file, e).Output = <<>>

\* C16: a delete whose predicate matches no record of a well-formed store
\* succeeds and leaves the bytes of the store as they were; and a second
\* delete with the same predicate right after a successful delete succeeds
\* and leaves the bytes as the first delete left them
C16_DeleteNoMatchIdempotent ==
  /\ (/\ call.op = "delete"
      /\ call.fault = "none"
      /\ WellFormed(call.db)
      /\ NoMatch(call.db, call.expr)) =>
       result.Success /\ databaseFile = call.db /\ ~backupFile.exists
  /\ (call.op = "delete" /\ result.Success) =>
       LET again == DeleteRecords(databaseFile, backupFile, call.expr, "none")
       IN  again.result.Success /\ again.db = databaseFile

C16_Witness ==
  /\ call.op = "delete"
  /\ call.fault = "none"
  /\ WellFormed(call.db)
  /\ NoMatch(call.db, call.expr)
  /\ Len(call.db.data) > 3
  /\ result.Success
  /\ databaseFile = call.db

\* the evaluation of the negated predicate of the last delete or update
KeepEvaluation ==
  executeRecCommand(Recsel(call.db, "", Negate(call.expr)), call.fault = "keep")

\* the last operation read the store and wrote the backup, and its
\* evaluation of the negated predicate failed
KeepFailed ==
  /\ IsDestructive
  /\ call.db.exists
  /\ call.fault \notin {"cmd", "read", "bakOpen", "bakWrite"}
  /\ call.op = "update" => QueryExpr(call.db, call.expr).Success
  /\ ~KeepEvaluation.Success

\* C17: when the evaluation of the negated predicate fails after the backup
\* was written, the store at return holds its content of before the
\* operation, and the operation returns that evaluation's Result as it is,
\* beside a nil error
C17_KeepFailureLeavesStore ==
  KeepFailed =>
    /\ databaseFile = call.db
    /\ result = KeepEvaluation
    /\ err = "nil"
    /\ loc.path = "keep_failed"

C17_Witness ==
  /\ KeepFailed
  /\ call.op = "update"
  /\ call.db.data /= <<>>
  /\ loc.backup = File(call.db.data)
  /\ ~result.Success

StoreSteps == {"store", "store failed"}

\* C18: every write to the store in a delete or update comes after a
\* successful write of the backup, which holds the bytes the store had
\* before the operation; when the write of the backup fails the operation
\* returns failure and has not written the store
C18_BackupPrecedesStoreWrite ==
  IsDestructive =>
    /\ \A i \in 1..Len(loc.steps) :
         loc.steps[i] \in StoreSteps =>
           /\ \E j \in 1..(i - 1) : loc.steps[j] = "backup"
           /\ loc.backup = File(call.db.data)
    /\ databaseFile /= call.db => \E i \in 1..Len(loc.steps) : loc.steps[i] \in StoreSteps
    /\ (\E i \in 1..Len(loc.steps) : loc.steps[i] = "backup failed") =>
         /\ ~result.Success
         /\ err = "failed to create backup"
         /\ databaseFile = call.db
         /\ \A i \in 1..Len(loc.steps) : loc.steps[i] \notin StoreSteps

C18_Witness ==
  /\ IsDestructive
  /\ loc.steps = <<"read", "backup", "keep", "store", "remove">>
  /\ loc.backup = File(call.db.data)
  /\ databaseFile /= call.db

\* the branches a delete or update can return on once the backup is written
AfterBackup == {"rewritten", "keep_failed", "write_failed"}

\* C19: a delete or update that wrote the backup and then failed, in the
\* evaluation of the negated predicate or in the final write, does not
\* remove the backup file
C19_BackupRemovedOnlyOnSuccess ==
  (IsDestructive /\ loc.path \in {"keep_failed", "write_failed"}) =>
    ~result.Success /\ backupFile.exists

\* C19 (as amended): a delete or update goes from the start through the
\* written backup to either the rewritten store (success) or the restore
\* step (failure); it removes the backup file after the rewrite and after a
\* failed evaluation of the negated predicate, and leaves it in place after
\* a failed final write
C19_BackupRemoval ==
  (IsDestructive /\ loc.path \in AfterBackup) =>
    /\ loc.steps[1] = "read" /\ loc.steps[2] = "backup" /\ loc.steps[3] = "keep"
    /\ loc.path = "rewritten" =>
         /\ result.Success
         /\ SubSeq(loc.steps, 4, Len(loc.steps)) = <<"store", "remove">>
         /\ ~backupFile.exists
    /\ loc.path = "keep_failed" =>
         /\ ~result.Success
         /\ SubSeq(loc.steps, 4, Len(loc.steps)) = <<"restore", "remove">>
         /\ ~backupFile.exists
    /\ loc.path = "write_failed" =>
         /\ ~result.Success
         /\ SubSeq(loc.steps, 4, Len(loc.steps)) = <<"store failed", "restore">>
         /\ backupFile.exists

C19_Witness ==
  /\ IsDestructive
  /\ loc.path = "keep_failed"
  /\ call.db.data /= <<>>
  /\ ~backupFile.exists

\* the recsel run of the first evaluation of the last update, which fetches
\* the matching records
FirstEvaluation == Recsel(call.db, "", call.expr)

\* that evaluation failed: recsel did not exit with 0, or was cancelled
FirstEvaluationFailed ==
  call.op = "update" /\ (call.fault = "cmd" \/ FirstEvaluation.exit /= 0)

\* C20: an update whose first evaluation fails returns Success false with
\* that evaluation's error text, writes no backup, and leaves the store and
\* a backup file that was there exactly as they were
C20_UpdateFirstEvaluationFails ==
  FirstEvaluationFailed =>
    /\ ~result.Success
    /\ call.fault /= "cmd" => result.Error = FirstEvaluation.stderr
    /\ databaseFile = call.db
    /\ backupFile = call.bak
    /\ loc.steps = <<>>

C20_Witness ==
  /\ FirstEvaluationFailed
  /\ call.db.exists
  /\ call.bak.exists
  /\ backupFile = call.bak

(***************************************************************************)
(* Error propagation and the format of the rewritten store (Spec).         *)
(***************************************************************************)
\* the last delete or update got as far as its read of the store
ReachedRead ==
  /\ IsDestructive
  /\ call.op = "update" => ~FirstEvaluationFailed

\* a read or write of a file failed inside the last delete or update
FileFailure ==
  /\ ReachedRead
  /\ \/ ~call.db.exists
     \/ call.fault \in {"read", "bakOpen", "bakWrite"}
     \/ /\ call.fault \in {"dbOpen", "dbWrite", "restore"}
        /\ Recsel(call.db, "", Negate(call.expr)).exit = 0

\* C21: a failed delete, update or query returns a nil error
C21_FailuresFoldedIntoResult ==
  (call.op \in {"delete", "update", "query"} /\ ~result.Success) => err = "nil"

\* C21 (as amended): a delete or update in which the read of the store, the
\* write of the backup or the write of the store fails returns Success
\* false with the failure's text and an error that is not nil; a delete or
\* update that fails otherwise, and every query, returns a nil error
C21_FileFailuresPropagate ==
  /\ FileFailure =>
       ~result.Success /\ result.Error /= <<>> /\ err /= "nil"
  /\ (IsDestructive /\ ~FileFailure) => err = "nil"
  /\ call.op = "query" => err = "nil"

C21_Witness ==
  /\ FileFailure
  /\ call.op = "update"
  /\ call.fault = "bakOpen"
  /\ err = "failed to create backup"

\* the positions of the type declarations of a text
Declarations(text) == {i \in 1..Len(text) : IsDeclaration(text[i])}

First(positions) == CHOOSE i \in positions : \A j \in positions : i <= j

\* C22: after a successful delete or update of a store that held a type
\* declaration, the store starts with that declaration on line 1; when the
\* store held none, the rewritten store holds none
C22_DeclarationPreserved ==
  (IsDestructive /\ result.Success) =>
    LET old == call.db.data
        new == databaseFile.data
    IN  IF Declarations(old) /= {}
        THEN /\ Len(new) >= 2
             /\ new[1] = old[First(Declarations(old))]
             /\ new[2] = NL
             /\ Declarations(new) = {1}
        ELSE Declarations(new) = {}

C22_Witness ==
  /\ IsDestructive
  /\ result.Success
  /\ Declarations(call.db.data) /= {}
  /\ databaseFile /= call.db
  /\ databaseFile.data[1] = Fld(RecMarker, "Person")
  /\ Len(databaseFile.data) > 3

\* every type declaration is followed by exactly one blank line, and no two
\* lines of the text are separated by more than one blank line
BlankLineStructure(text) ==
  LET n == Len(text)
  IN  /\ \A i \in Declarations(text) :
           /\ i + 2 <= n
           /\ text[i + 1] = NL
           /\ text[i + 2] = NL
      /\ \A i \in 1..(n - 2) : ~(text[i] = NL /\ text[i + 1] = NL /\ text[i + 2] = NL)

NoRecordFile(text) ==
  /\ Len(text) = 4
  /\ IsDeclaration(text[1])
  /\ text = FreshContent(text[1].v, <<>>)

IsPrefix(a, b) == Len(a) <= Len(b) /\ SubSeq(b, 1, Len(a)) = a

\* the insert went to a store that was there and not empty
InsertIntoExisting ==
  call.op = "insert" /\ call.db.exists /\ call.db.data /= <<>>

\* C24: an insert leaves the backup file as it was, and a successful insert
\* into a store that is not empty leaves the former content in place as a
\* prefix of the new content, which is longer
C24_InsertIsAdditive ==
  call.op = "insert" =>
    /\ backupFile = call.bak
    /\ (InsertIntoExisting /\ result.Success) =>
         /\ IsPrefix(call.db.data, databaseFile.data)
         /\ Len(databaseFile.data) > Len(call.db.data)

\* C25: an insert into a store that is not empty adds no type declaration,
\* and the store never holds more than one type declaration
C25_SingleDeclaration ==
  /\ InsertIntoExisting =>
       Cardinality(Declarations(databaseFile.data)) = Cardinality(Declarations(call.db.data))
  /\ Cardinality(Declarations(databaseFile.data)) <= 1

\* the insert went to a store whose last byte was not a newline
InsertAfterMissingNewline ==
  InsertIntoExisting /\ result.Success /\ ~EndsWithNewline(call.db.data)

\* the former content, a newline, a blank line, the field lines of the new
\* record and a newline
HealedAppend ==
  databaseFile.data =
    call.db.data \o <<NL, NL>> \o Join(RecordLines(call.fields, call.order)) \o <<NL>>

\* C26: a successful insert into a store whose last byte is not a newline
\* leaves the former content, one newline, one blank line, the field lines
\* of the new record and a newline
C26_MissingNewlineHealed == InsertAfterMissingNewline => HealedAppend

\* the fields in the order the caller wrote them
Supplied(fields) ==
  IF fields = {} THEN <<>>
  ELSE CHOOSE o \in Orders(fields) : o \in {<<"Name", "Age">>}

\* part occurs in text as a run of consecutive tokens
Contains(text, part) ==
  \E i \in 0..(Len(text) - Len(part)) : SubSeq(text, i + 1, i + Len(part)) = part

\* C27: a successful insert writes one line per field in the order the
\* fields were supplied, with no blank line among them, and the file it
\* leaves is the same for every run with these arguments on this store
C27_InsertDeterministic ==
  (call.op = "insert" /\ result.Success) =>
    /\ Contains(databaseFile.data,
                Join(RecordLines(call.fields, Supplied(call.fields))) \o <<NL>>)
    /\ \A order \in Orders(call.fields) :
         InsertRecord(call.db, call.bak, call.type, call.fields, order, call.fault).db
           = databaseFile

(***************************************************************************)
(* Update: the rewritten store and the matched records (Spec).             *)
(***************************************************************************)
\* the store as the recomposition describes it: the declaration block, the
\* kept records, a blank line if there are both kept and updated lines, the
\* updated lines and a newline
Recomposed(recordTypeDecl, kept, updatedRecords) ==
  (IF recordTypeDecl /= <<>> THEN recordTypeDecl \o <<NL, NL>> ELSE <<>>)
  \o kept
  \o (IF kept /= <<>> /\ Len(updatedRecords) > 0 THEN <<NL, NL>> ELSE <<>>)
  \o Join(updatedRecords) \o <<NL>>

\* C28: a successful update writes the declaration block, the kept records
\* as the keep evaluation returned them, a blank line only if there are both
\* kept and updated lines, then the updated lines followed by a newline
C28_UpdateRecomposition ==
  (call.op = "update" /\ result.Success) =>
    databaseFile.data =
      Recomposed(extractRecordTypeDeclaration(call.db.data), KeepEvaluation.Output,
                 UpdateFields(NonBlankLines(Split(loc.query)), call.order, call.fields))

\* the records of a text, the type declaration not counted
DataRecords(text) ==
  LET IsData(rec) == ~IsDescriptor(rec) IN SelectSeq(ParseRecords(text), IsData)

\* the fields of a record that the update does not change
Unchanged(rec, fields) ==
  LET Keep(tok) == tok.n \notin Keys(fields) IN SelectSeq(rec, Keep)

\* C29: a successful update that matches at least one record leaves as many
\* records as there were, and every matched record is still a record of its
\* own with its unchanged fields
C29_UpdateKeepsRecordBoundaries ==
  (call.op = "update" /\ result.Success /\ loc.query /= <<>>) =>
    LET old == DataRecords(call.db.data)
        new == DataRecords(databaseFile.data)
        matched == DataRecords(loc.query)
    IN  /\ Len(new) = Len(old)
        /\ \A i \in 1..Len(matched) :
             \E j \in 1..Len(new) :
               Unchanged(new[j], call.fields) = Unchanged(matched[i], call.fields)

(***************************************************************************)
(* Two concurrent destructive calls (specification SpecTasks).             *)
(***************************************************************************)
\* C30: when one call removes the backup file while the other call is
\* between its write of the backup and its final write, the other call is
\* left without a backup that holds the bytes it read from the store
C30_BackupClobbering ==
  \A v, w \in Workers :
    (w \in task[v].lost /\ task[w].pc \in InFlight) =>
      backupFile /= File(task[w].original)

C30_Witness ==
  \E v, w \in Workers :
    /\ w \in task[v].lost
    /\ task[v].ok
    /\ task[w].pc = "kept"
    /\ task[w].original /= <<>>
    /\ ~backupFile.exists

\* the record of the concurrent insert, as the store holds it
InsertedRecord == Join(RecordLines(TaskRecord, TaskOrder)) \o <<NL>>

\* the inserted record is not selected by the predicate
Spared(e) == ~Matches(ParseRecords(InsertedRecord)[1], e)

\* C31: when an insert and a delete or update run at once on one store and
\* both return success, the inserted record is in the final store unless
\* the predicate of the other call selects it
C31_NoLostInsert ==
  \A v, w \in Workers :
    (/\ task[w].op = "insert" /\ task[w].pc = "done" /\ task[w].ok
     /\ task[v].op \in TaskOps /\ task[v].pc = "done" /\ task[v].ok
     /\ Spared(task[v].expr))
    => Contains(databaseFile.data, InsertedRecord)
(***************************************************************************)
(* Backup file and propagating error.                                      *)
(***************************************************************************)
\* C32: whenever DeleteRecords or UpdateRecords returns a nil error, no
\* backup file exists
C32_LeftoverBackupSignalled ==
  (call.op \in {"delete", "update"} /\ err = "nil") => ~backupFile.exists

\* C32, amended: whenever DeleteRecords or UpdateRecords returns a nil
\* error, no backup file exists, unless it is an UpdateRecords whose first
\* evaluation failed: that call returns before it reads or writes a file
C32_LeftoverBackupOfEarlierCall ==
  (/\ call.op \in {"delete", "update"}
   /\ err = "nil"
   /\ ~(call.op = "update" /\ FirstEvaluationFailed))
  => ~backupFile.exists

\* a call that fails on its keep evaluation finds the backup an earlier
\* call left, and returns a nil error with no backup on disk
C32_Witness ==
  /\ call.op \in {"delete", "update"}
  /\ call.bak.exists
  /\ KeepFailed
  /\ ~result.Success
  /\ err = "nil"
  /\ ~backupFile.exists
\* C33: when the final write of the store fails in a delete or update, the
\* call returns failure with an error and leaves a backup file that holds
\* the bytes it read from the store
C33_FailedWriteLeavesBackup ==
  (IsDestructive /\ loc.path = "write_failed") =>
    /\ ~result.Success
    /\ err /= "nil"
    /\ backupFile = File(loc.original)
(***************************************************************************)
(* Query and info.                                                         *)
(***************************************************************************)
\* the one command a query or info call runs: recsel [-t format] file
\* [-e expr], or recinf file
CommandRun ==
  IF call.op = "query" THEN Recsel(call.db, call.format, call.expr) ELSE Recinf(call.db)

\* C34: a query or info call returns the Result and the error of its one
\* command as they are, and leaves the store file and the backup file as
\* they were, present or absent
C34_ReadOnlyPassThrough ==
  call.op \in {"query", "info"} =>
    /\ result = executeRecCommand(CommandRun, call.fault = "cmd")
    /\ err = CommandError(CommandRun, call.fault = "cmd")
    /\ databaseFile = call.db
    /\ backupFile = call.bak

\* a query that selects records while the backup of an earlier failed call
\* is on disk
C34_Witness ==
  /\ call.op = "query"
  /\ call.bak.exists
  /\ result.Success
  /\ result.Output /= <<>>
  /\ result.Output /= CommandRun.stdout
  /\ backupFile = call.bak
(***************************************************************************)
(* The Result of a command run (specification SpecCmd).                    *)
(***************************************************************************)
\* the run did not end in an exit with code 0 inside the fixed bound of 30
\* seconds: it was cancelled, exited with another code, or timed out
CommandFailed == cmd.end = "cancelled" \/ cmd.proc.exit /= 0 \/ cmd.elapsed > Timeout

\* C35: executeRecCommand returns a nil error on every path; a non-zero
\* exit, a timeout and a cancellation give a Result with Success false, the
\* one of a non-zero exit with the captured streams as they are; an exit
\* with code 0 gives Success true with both streams trimmed
C35_FailuresAreValues ==
  cmd.phase = "done" =>
    /\ cmd.err = "nil"
    /\ ~cmd.result.nil
    /\ CommandFailed => ~cmd.result.Success
    /\ (cmd.end = "exit" /\ cmd.proc.exit /= 0) =>
         /\ cmd.result.Output = cmd.proc.stdout
         /\ cmd.result.Error = cmd.proc.stderr
    /\ ~CommandFailed =>
         /\ cmd.result.Success
         /\ cmd.result.Output = TrimSpace(cmd.proc.stdout)
         /\ cmd.result.Error = TrimSpace(cmd.proc.stderr)
(***************************************************************************)
(* Update run twice.                                                       *)
(***************************************************************************)
\* the predicate does not test a field the update changes
Independent(e, fields) == e.n \notin Keys(fields)

\* the same UpdateRecords call run once more on the store as it is now,
\* with the fields map ranged over in the given order
SecondRun(order) ==
  UpdateRecords(databaseFile, backupFile, call.expr, call.fields, order, "none")

\* C36: after a successful update whose predicate does not test a changed
\* field, the same update run again returns Success true and leaves the
\* store byte for byte as the first run left it
C36_UpdateIdempotent ==
  (/\ call.op = "update"
   /\ result.Success
   /\ Independent(call.expr, call.fields))
  => \A order \in Orders(call.fields) :
       /\ SecondRun(order).result.Success
       /\ SecondRun(order).db = databaseFile
(***************************************************************************)
(* Delete that keeps nothing.                                              *)
(***************************************************************************)
\* the last operation is a successful delete whose keep evaluation gave no
\* record
KeptNothing ==
  /\ call.op = "delete"
  /\ result.Success
  /\ Recsel(call.db, "", Negate(call.expr)).stdout = <<>>

\* C37: a successful delete that keeps no record writes a store without
\* the blank separator after the declaration, and an empty store when the
\* original store held no declaration
C37_DeleteKeepsNothing ==
  KeptNothing =>
    /\ \A i \in 1..(Len(databaseFile.data) - 1) :
         ~(databaseFile.data[i] = NL /\ databaseFile.data[i + 1] = NL)
    /\ Declarations(call.db.data) = {} => databaseFile.data = <<>>

\* C37, amended: a successful delete that keeps no record writes the
\* declaration followed by the blank separator and nothing more, and an
\* empty store when the original store held no declaration
C37_DeleteKeepsDeclarationBlock ==
  KeptNothing =>
    LET old == call.db.data
    IN  IF Declarations(old) /= {}
        THEN databaseFile.data = <<old[First(Declarations(old))], NL, NL>>
        ELSE databaseFile.data = <<>>

\* a delete that removed every record of a store with a declaration
C37_Witness ==
  /\ KeptNothing
  /\ Declarations(call.db.data) /= {}
  /\ Len(call.db.data) > 3
  /\ Len(databaseFile.data) = 3
(***************************************************************************)
(* extractRecordTypeDeclaration (specification SpecExtract).               *)
(***************************************************************************)
\* the line begins with the marker once the blanks around it are trimmed
BeginsWithMarker(line) ==
  LET trimmed == TrimSpace(line) IN trimmed /= <<>> /\ IsDeclaration(trimmed[1])

\* the numbers of the lines of the text that begin with the marker
MarkerLines(text) ==
  {i \in 1..Len(Split(text)) : BeginsWithMarker(Split(text)[i])}

\* C38: extractRecordTypeDeclaration returns the first line, from the top,
\* that begins with the marker after trimming, in its trimmed form, whatever
\* declaration lines follow; it returns the empty string exactly when no
\* line begins with the marker
C38_FirstDeclarationLine ==
  scan.phase = "done" =>
    LET hits == MarkerLines(scan.content)
    IN  /\ hits /= {} => scan.ret = TrimSpace(Split(scan.content)[First(hits)])
        /\ scan.ret = <<>> <=> hits = {}

\* a text whose first declaration line has blanks around it and comes
\* after another line, with a second declaration line below it
C38_Witness ==
  /\ scan.phase = "done"
  /\ Cardinality(MarkerLines(scan.content)) = 2
  /\ First(MarkerLines(scan.content)) = 2
  /\ Split(scan.content)[2] /= TrimSpace(Split(scan.content)[2])
  /\ scan.ret = TrimSpace(Split(scan.content)[2])
====
